---- MODULE Spec2Model ----
(***************************************************************************)
(* The MovieLens / OMDb ETL pipeline: extract (src/pipelines/extract.py),  *)
(* transform (src/pipelines/transform.py) and load (src/pipelines/load.py).*)
(*                                                                         *)
(* Files on disk and the SQL store are the state.  A file that may be      *)
(* absent is a pair of a presence flag and its rows.  An optional value    *)
(* (pandas NaN / Python None) is the empty set, a present value x is {x}.  *)
(***************************************************************************)
EXTENDS Integers, Sequences, FiniteSets, TLC

VARIABLES
    \* ---- the remote archive and the raw directory (extract.py) ----
    links,        \* rows of links.csv inside the archive: [movieId, imdbId]
    zip,          \* data/raw/ml-latest-small.zip: "absent", "partial", "complete"
    mlDir,        \* data/raw/ml-latest-small/ exists (movies, ratings, links)
    omdbRaw,      \* omdb_raw.csv: [exists, rows]
    \* ---- one call of extract.run ----
    epc,          \* position of run(): idle/download/extract/ensure/env/fetch/request/write/done/failed
    limit,        \* int(os.getenv("OMDB_LIMIT", "100"))
    idx,          \* position of the iterrows loop in links
    attempt,      \* attempt index of _fetch_omdb_raw's for loop
    rows,         \* the list `rows` of run()
    count,        \* the counter `count` of run()
    requests,     \* requests.get calls issued for the current record
    sleeps,       \* time.sleep arguments (tenths of a second) for the current record
    did,          \* the disk writes this call of run() has started: download/extract/write_omdb
    cached,       \* archive, directory and omdb_raw.csv were all present at run() entry
    snap,         \* the zip, mlDir and omdbRaw found at run() entry
    lastEmpty,    \* the most recent completed run() retained no record
    \* ---- data/processed (transform.py output, load.py input) ----
    processed,    \* the six normalized files
    tpc,          \* outcome of transform() since the last run(): none/done/failed
    \* ---- the SQL store and one call of load ----
    tables,       \* current contents of the six tables, uncommitted writes included
    journal,      \* contents at BEGIN, restored by ROLLBACK
    inTx,         \* a transaction is open on the connection
    fk,           \* PRAGMA foreign_keys of the connection
    lpc,          \* position of load(): idle/begin/delete/insert/commit/done/failed
    lstep,        \* index in the delete loop / the insert sequence
    input,        \* the six DataFrames returned by _read_processed
    lerr,         \* the exception load() raised: its cause and where it was raised
    prior         \* the store as it was when load() was called

vars == <<links, zip, mlDir, omdbRaw, epc, limit, idx, attempt, rows, count,
          requests, sleeps, did, cached, snap, lastEmpty, processed, tpc,
          tables, journal, inTx, fk, lpc, lstep, input, lerr, prior>>

extractVars == <<links, zip, mlDir, omdbRaw, epc, limit, idx, attempt, rows,
                 count, requests, sleeps, did, cached, snap, lastEmpty>>
loadVars == <<tables, journal, inTx, fk, lpc, lstep, input, lerr, prior>>

\* ------------------------------------------------------------------ bounds
MaxRows == 3          \* rows, over the six files, of a directory handed to load
MaxLinks == 2         \* rows of links.csv
MaxLimit == 2         \* OMDB_LIMIT ranges over 0..MaxLimit

MovieIds == {1, 2}
UserIds == {7}
Genres == {"Drama"}
Payloads == {"full", "error"}   \* an OMDb body with / without BoxOffice, Released, Runtime

Null == {}
Some(x) == {x}
Val(o) == CHOOSE x \in o : TRUE
OptMovieIds == {Null} \cup {Some(m) : m \in MovieIds}

\* ------------------------------------------------------------------ load.py
FILES == <<"movies.csv", "genres.csv", "movie_genres.csv", "users.csv",
           "ratings.csv", "omdb_details.csv">>

FileSet == {FILES[i] : i \in 1..Len(FILES)}

EmptyTables == [movies |-> {}, genres |-> {}, users |-> {},
                movie_genres |-> {}, ratings |-> {}, omdb_details |-> {}]

EmptyFrames == [movies |-> {}, genres |-> {}, users |-> {},
                movie_genres |-> {}, ratings |-> {}, omdb_details |-> <<>>]

EmptyDir == [present |-> {}, frames |-> EmptyFrames]

NoError == [cause |-> "none", at |-> <<"none", 0>>]

\* _validate_files: the expected files that do not exist
Missing(dir) == FileSet \ dir.present

\* astype({"movie_id": "int64"}) cannot convert a missing value
CoercionFails(dir) ==
    \E i \in 1..Len(dir.frames.omdb_details) : dir.frames.omdb_details[i].movie_id = Null

\* _read_processed: the six typed frames
ReadProcessed(dir) ==
    [dir.frames EXCEPT !.omdb_details =
        [i \in 1..Len(@) |-> [movie_id |-> Val(@[i].movie_id)]]]

\* faulty variant: the parent table movies is cleared first
DeleteOrderMoviesFirst == <<"movies", "ratings", "movie_genres", "omdb_details", "users", "genres">>

\* faulty variant: genres is never cleared
DeleteOrderNoGenres == <<"ratings", "movie_genres", "omdb_details", "users", "movies">>

\* the tables cleared by the delete loop, in the loop's order
DeleteOrder == <<"ratings", "movie_genres", "omdb_details", "users", "genres", "movies">>

\* the tables filled by the to_sql calls, in call order
InsertOrder == <<"movies", "genres", "users", "movie_genres", "ratings", "omdb_details">>

SeqToSet(s) == {s[i] : i \in 1..Len(s)}

\* rows of a frame as the set of table rows they become
FrameRows(frames, tbl) ==
    IF tbl = "omdb_details" THEN SeqToSet(frames.omdb_details) ELSE frames[tbl]

\* the store a successful load of `frames` into empty tables builds
AsTables(frames) == [t \in DOMAIN EmptyTables |-> FrameRows(frames, t)]

\* the schema's constraints (schema.sql): primary keys
PkViolated(t, tbl, frames) ==
    CASE tbl = "omdb_details" ->
            \/ \E i, j \in 1..Len(frames.omdb_details) :
                  i # j /\ frames.omdb_details[i].movie_id = frames.omdb_details[j].movie_id
            \/ \E r \in SeqToSet(frames.omdb_details) :
                  \E q \in t.omdb_details : q.movie_id = r.movie_id
      [] tbl = "ratings" -> FALSE
      [] OTHER -> frames[tbl] \cap t[tbl] # {}

\* the schema's constraints (schema.sql): a row of `tbl` whose parent row is absent
Dangling(t, tbl, rws) ==
    CASE tbl = "movie_genres" ->
            \E r \in rws : r[1] \notin t.movies \/ r[2] \notin t.genres
      [] tbl = "ratings" ->
            \E r \in rws : r[1] \notin t.users \/ r[2] \notin t.movies
      [] tbl = "omdb_details" ->
            \E r \in rws : r.movie_id \notin t.movies
      [] OTHER -> FALSE

\* the schema's constraints: deleting every row of `tbl` leaves a child row orphaned
DeleteRejected(t, tbl) ==
    CASE tbl = "movies" ->
            \/ \E r \in t.movie_genres : r[1] \in t.movies
            \/ \E r \in t.ratings : r[2] \in t.movies
            \/ \E r \in t.omdb_details : r.movie_id \in t.movies
      [] tbl = "genres" -> \E r \in t.movie_genres : r[2] \in t.genres
      [] tbl = "users" -> \E r \in t.ratings : r[1] \in t.users
      [] OTHER -> FALSE

\* faulty variant: statements autocommit, an exception undoes nothing
RollbackKeepsWrites(t, j) == t

\* exit of `with engine.begin()` by an exception: ROLLBACK
Rollback(t, j) == j

\* what a reader on another connection sees
Committed == IF inTx THEN journal ELSE tables

LoadIdle == lpc = "idle"

\* load(): apply_schema, _read_processed (with _validate_files), get_engine
ReadAndBegin(dir) ==
    /\ LoadIdle
    /\ prior' = tables
    /\ lstep' = 0
    /\ IF Missing(dir) # {} \/ CoercionFails(dir)
         THEN /\ lpc' = "failed"
              /\ lerr' = [cause |-> IF Missing(dir) # {} THEN "missing" ELSE "coercion",
                          at |-> <<"read", 0>>]
              /\ UNCHANGED input
         ELSE /\ lpc' = "begin"
              /\ lerr' = NoError
              /\ input' = ReadProcessed(dir)
    /\ UNCHANGED <<tables, journal, inTx, fk>>

\* load(processed_dir) on the directory transform() wrote
LoadStart ==
    /\ epc = "idle"
    /\ ReadAndBegin(processed)
    /\ UNCHANGED <<extractVars, processed, tpc>>

\* engine.begin() and PRAGMA foreign_keys = ON (the driver opens the transaction
\* at the first DELETE, so the PRAGMA takes effect)
LoadPragma ==
    /\ lpc = "begin"
    /\ journal' = tables
    /\ inTx' = TRUE
    /\ fk' = TRUE
    /\ lpc' = "delete"
    /\ lstep' = 1
    /\ UNCHANGED <<tables, input, lerr, prior, extractVars, processed, tpc>>

\* a statement raised: the with-block exits by ROLLBACK and load() propagates
Abort(cause) ==
    /\ tables' = Rollback(tables, journal)
    /\ inTx' = FALSE
    /\ lpc' = "failed"
    /\ lerr' = [cause |-> cause, at |-> <<lpc, lstep>>]
    /\ journal' = EmptyTables
    /\ UNCHANGED <<fk, lstep, input, prior>>

\* one iteration of the delete loop
LoadDelete ==
    /\ lpc = "delete"
    /\ LET tbl == DeleteOrder[lstep] IN
         IF fk /\ DeleteRejected(tables, tbl)
           THEN Abort("constraint")
           ELSE /\ tables' = [tables EXCEPT ![tbl] = {}]
                /\ IF lstep < Len(DeleteOrder)
                     THEN lpc' = "delete" /\ lstep' = lstep + 1
                     ELSE lpc' = "insert" /\ lstep' = 1
                /\ UNCHANGED <<journal, inTx, fk, input, lerr, prior>>
    /\ UNCHANGED <<extractVars, processed, tpc>>

\* one to_sql call (omdb_details only when the frame is not empty)
LoadInsert ==
    /\ lpc = "insert"
    /\ LET tbl == InsertOrder[lstep]
           rws == FrameRows(input, tbl)
           skip == tbl = "omdb_details" /\ input.omdb_details = <<>>
       IN IF ~skip /\ (PkViolated(tables, tbl, input) \/ (fk /\ Dangling(tables, tbl, rws)))
            THEN Abort("constraint")
            ELSE /\ tables' = IF skip THEN tables
                              ELSE [tables EXCEPT ![tbl] = @ \cup rws]
                 /\ IF lstep < Len(InsertOrder)
                      THEN lpc' = "insert" /\ lstep' = lstep + 1
                      ELSE lpc' = "commit" /\ lstep' = 0
                 /\ UNCHANGED <<journal, inTx, fk, input, lerr, prior>>
    /\ UNCHANGED <<extractVars, processed, tpc>>

\* normal exit of `with engine.begin()`: COMMIT
LoadCommit ==
    /\ lpc = "commit"
    /\ inTx' = FALSE
    /\ lpc' = "done"
    /\ journal' = EmptyTables
    /\ UNCHANGED <<tables, fk, lstep, input, lerr, prior>>
    /\ UNCHANGED <<extractVars, processed, tpc>>

\* any statement of the transaction, the COMMIT included, can fail (connection loss)
LoadFail ==
    /\ lpc \in {"delete", "insert", "commit"}
    /\ Abort("connection")
    /\ UNCHANGED <<extractVars, processed, tpc>>

\* load() returns or raises to its caller: its locals are gone
LoadReturn ==
    /\ lpc \in {"done", "failed"}
    /\ lpc' = "idle"
    /\ input' = EmptyFrames
    /\ lerr' = NoError
    /\ prior' = tables
    /\ lstep' = 0
    /\ UNCHANGED <<tables, journal, inTx, fk>>
    /\ UNCHANGED <<extractVars, processed, tpc>>

\* ---- load() handed an arbitrary directory of normalized files
\* omdb_details.csv rows, by their key
OmdbRowsOf(ids) == [movie_id : ids]

BoundedSeqs(S, n) == UNION {[1..k -> S] : k \in 0..n}

TotalRows(f) ==
    Cardinality(f.movies) + Cardinality(f.genres) + Cardinality(f.users)
      + Cardinality(f.movie_genres) + Cardinality(f.ratings) + Len(f.omdb_details)

\* the directories of at most MaxRows rows in all
ProcessedDirs ==
    {d \in [present : {FileSet, FileSet \ {"omdb_details.csv"}},
            frames : [movies : SUBSET MovieIds, genres : SUBSET Genres,
                      users : SUBSET UserIds,
                      movie_genres : SUBSET (MovieIds \X Genres),
                      ratings : SUBSET (UserIds \X MovieIds),
                      omdb_details : BoundedSeqs(OmdbRowsOf(OptMovieIds), 2)]] :
        TotalRows(d.frames) <= MaxRows}

\* load(processed_dir) on any directory of normalized files
LoadDir ==
    /\ LoadIdle
    /\ \E dir \in ProcessedDirs : ReadAndBegin(dir)
    /\ UNCHANGED <<extractVars, processed, tpc>>

\* ------------------------------------------------------------------ claims on load

\* C1: load is atomic. After load() has failed, at whatever statement of the
\* transaction (any DELETE, any insert, the last one included, or the COMMIT),
\* all six tables hold exactly the rows they held when load() was called, and
\* what is committed is at every moment either the prior store or the complete
\* new one, never a store with some tables replaced.
C1_LoadAtomic ==
    /\ lpc = "failed" => tables = prior
    /\ \/ Committed = prior
       \/ lpc = "done" /\ Committed = AsTables(input)

\* a load that failed at the last insert, after replacing the earlier tables
C1_Witness ==
    /\ lpc = "failed"
    /\ lerr.at = <<"insert", 6>>
    /\ prior.ratings # {}
    /\ input.movies # prior.movies
    /\ input.omdb_details # <<>>

\* C2: load is a full replace. After a successful load each of the six tables
\* holds exactly the rows of that call's input, whatever the store held before
\* (never a union with earlier rows); with an empty OmdbDetail input the
\* omdb_details table ends empty.
C2_FullReplace ==
    lpc = "done" =>
        /\ \A t \in DOMAIN EmptyTables : tables[t] = FrameRows(input, t)
        /\ input.omdb_details = <<>> => tables.omdb_details = {}

\* a successful load with no enrichment over a store that held enrichment rows
C2_Witness ==
    /\ lpc = "done"
    /\ prior.omdb_details # {}
    /\ prior.movies # {}
    /\ input.omdb_details = <<>>
    /\ input.movies # {}
    /\ input.movies # prior.movies

C3_DeleteOrder == <<"ratings", "movie_genres", "omdb_details", "users", "genres", "movies">>

C3_InsertOrder == <<"movies", "genres", "users", "movie_genres", "ratings", "omdb_details">>

\* no movie_genres, ratings or omdb_details row whose movie, genre or user is absent
NoOrphans(t) ==
    /\ \A r \in t.movie_genres : r[1] \in t.movies /\ r[2] \in t.genres
    /\ \A r \in t.ratings : r[1] \in t.users /\ r[2] \in t.movies
    /\ \A r \in t.omdb_details : r.movie_id \in t.movies

\* the referential invariants of the data model, on the six frames
InputConsistent(f) ==
    /\ \A r \in f.movie_genres : r[1] \in f.movies /\ r[2] \in f.genres
    /\ \A r \in f.ratings : r[1] \in f.users /\ r[2] \in f.movies
    /\ \A i \in 1..Len(f.omdb_details) :
          /\ f.omdb_details[i].movie_id \in f.movies
          /\ \A j \in 1..Len(f.omdb_details) :
                f.omdb_details[i].movie_id = f.omdb_details[j].movie_id => i = j

\* C3: inside the transaction foreign keys are on before the first DELETE; the
\* tables are emptied in the order ratings, movie_genres, omdb_details, users,
\* genres, movies and filled in the order movies, genres, users, movie_genres,
\* ratings, omdb_details; no state of the transaction holds a child row whose
\* parent row is absent, and an input that satisfies the data-model invariants
\* is never rejected by a constraint.
C3_FkOrder ==
    /\ lpc \in {"delete", "insert", "commit"} => inTx /\ fk
    /\ lpc = "delete" =>
          \A k \in 1..6 :
             tables[C3_DeleteOrder[k]] =
                IF k < lstep THEN {} ELSE prior[C3_DeleteOrder[k]]
    /\ lpc = "insert" =>
          \A k \in 1..6 :
             tables[C3_InsertOrder[k]] =
                IF k < lstep THEN FrameRows(input, C3_InsertOrder[k]) ELSE {}
    /\ NoOrphans(tables)
    /\ (lpc = "failed" /\ lerr.cause = "constraint") => ~InputConsistent(input)

\* the bridge rows of a consistent input just inserted over a store that held ratings
C3_Witness ==
    /\ lpc = "insert"
    /\ lstep = 5
    /\ prior.ratings # {}
    /\ input.movie_genres # {}
    /\ InputConsistent(input)

InitLoad ==
    /\ tables = EmptyTables
    /\ journal = EmptyTables
    /\ inTx = FALSE
    /\ fk = FALSE
    /\ lpc = "idle"
    /\ lstep = 0
    /\ input = EmptyFrames
    /\ lerr = NoError
    /\ prior = EmptyTables

InitExtractIdle ==
    /\ links = <<>>
    /\ zip = "absent"
    /\ mlDir = FALSE
    /\ omdbRaw = [exists |-> FALSE, rows |-> <<>>]
    /\ epc = "idle"
    /\ limit = 0
    /\ idx = 0
    /\ attempt = 0
    /\ rows = <<>>
    /\ count = 0
    /\ requests = 0
    /\ sleeps = <<>>
    /\ did = {}
    /\ cached = FALSE
    /\ snap = <<"absent", FALSE, [exists |-> FALSE, rows |-> <<>>]>>
    /\ lastEmpty = FALSE

InitLoader ==
    /\ InitLoad
    /\ InitExtractIdle
    /\ processed = EmptyDir
    /\ tpc = "none"

NextLoader ==
    LoadDir \/ LoadPragma \/ LoadDelete \/ LoadInsert \/ LoadCommit \/ LoadFail \/ LoadReturn

SpecLoad == InitLoader /\ [][NextLoader]_vars

\* ------------------------------------------------------------------ extract.py
MaxRetries == 3       \* max_retries of _fetch_omdb_raw
BackoffTenths == 5    \* backoff of _fetch_omdb_raw, 0.5 s, in tenths of a second

\* the id-mapping rows an archive may hold: [movieId, imdbId], either possibly NaN
LinkRows ==
    {[movieId |-> Some(1), imdbId |-> Some(5)],
     [movieId |-> Some(2), imdbId |-> Some(6)],
     [movieId |-> Some(1), imdbId |-> Null],
     [movieId |-> Null, imdbId |-> Some(5)]}

LinksLists == BoundedSeqs(LinkRows, MaxLinks)

RECURSIVE Digits(_)
\* str(int(n))
Digits(n) == IF n < 10 THEN <<n>> ELSE Append(Digits(n \div 10), n % 10)

RECURSIVE ZFill(_, _)
\* str.zfill(width)
ZFill(ds, width) == IF Len(ds) >= width THEN ds ELSE ZFill(<<0>> \o ds, width)

\* _imdb_tt: "tt" and the seven-digit identifier, None for NaN
ImdbTt(o) == IF o = Null THEN Null ELSE Some(<<"tt", ZFill(Digits(Val(o)), 7)>>)

\* zip_path.exists()
ZipExists(z) == z # "absent"

\* faulty variant: the directory is never found, so it is unpacked on every run
DirExistsNever(d) == FALSE

\* ml_dir.exists()
DirExists(d) == d

\* faulty variant: a constant delay
DelayFlat(k) == BackoffTenths

\* time.sleep(backoff * attempt)
Delay(k) == BackoffTenths * k

NoRaw == [exists |-> FALSE, rows |-> <<>>]

ResetLocals ==
    /\ limit' = 0
    /\ idx' = 0
    /\ attempt' = 0
    /\ rows' = <<>>
    /\ count' = 0
    /\ requests' = 0
    /\ sleeps' = <<>>

\* run() is entered: raw_dir.mkdir
RunStart ==
    /\ epc = "idle"
    /\ lpc = "idle"
    /\ epc' = "download"
    /\ ResetLocals
    /\ did' = {}
    /\ cached' = (zip # "absent" /\ mlDir /\ omdbRaw.exists)
    /\ snap' = <<zip, mlDir, omdbRaw>>
    /\ tpc' = "none"
    /\ UNCHANGED <<links, zip, mlDir, omdbRaw, lastEmpty, processed, loadVars>>

\* _download_zip, the archive already on disk
DownloadSkip ==
    /\ epc = "download"
    /\ ZipExists(zip)
    /\ epc' = "extract"
    /\ UNCHANGED <<links, zip, mlDir, omdbRaw, limit, idx, attempt, rows, count,
                   requests, sleeps, did, cached, snap, lastEmpty, processed, tpc, loadVars>>

\* _download_zip: requests.get or raise_for_status raises before the file is opened
DownloadRefused ==
    /\ epc = "download"
    /\ ~ZipExists(zip)
    /\ epc' = "failed"
    /\ did' = did \cup {"download"}
    /\ UNCHANGED <<links, zip, mlDir, omdbRaw, limit, idx, attempt, rows, count,
                   requests, sleeps, cached, snap, lastEmpty, processed, tpc, loadVars>>

\* _download_zip: iter_content raises after open(zip_path, "wb")
DownloadBroken ==
    /\ epc = "download"
    /\ ~ZipExists(zip)
    /\ zip' = "partial"
    /\ epc' = "failed"
    /\ did' = did \cup {"download"}
    /\ UNCHANGED <<links, mlDir, omdbRaw, limit, idx, attempt, rows, count,
                   requests, sleeps, cached, snap, lastEmpty, processed, tpc, loadVars>>

\* _download_zip: every chunk written
DownloadComplete ==
    /\ epc = "download"
    /\ ~ZipExists(zip)
    /\ zip' = "complete"
    /\ epc' = "extract"
    /\ did' = did \cup {"download"}
    /\ UNCHANGED <<links, mlDir, omdbRaw, limit, idx, attempt, rows, count,
                   requests, sleeps, cached, snap, lastEmpty, processed, tpc, loadVars>>

\* if not ml_dir.exists(): _extract_zip; then _ensure_data_present (a complete
\* archive holds movies.csv, ratings.csv and links.csv)
ExtractZip ==
    /\ epc = "extract"
    /\ IF DirExists(mlDir)
         THEN /\ epc' = "env"
              /\ UNCHANGED <<mlDir, did>>
         ELSE IF zip = "complete"
           THEN /\ mlDir' = TRUE
                /\ did' = did \cup {"extract"}
                /\ epc' = "env"
           ELSE /\ epc' = "failed"        \* zipfile.BadZipFile
                /\ UNCHANGED <<mlDir, did>>
    /\ UNCHANGED <<links, zip, omdbRaw, limit, idx, attempt, rows, count,
                   requests, sleeps, cached, snap, lastEmpty, processed, tpc, loadVars>>

\* OMDB_API_KEY is not set: RuntimeError
NoApiKey ==
    /\ epc = "env"
    /\ epc' = "failed"
    /\ UNCHANGED <<links, zip, mlDir, omdbRaw, limit, idx, attempt, rows, count,
                   requests, sleeps, did, cached, snap, lastEmpty, processed, tpc, loadVars>>

\* the key is set; limit = int(os.getenv("OMDB_LIMIT", "100")); links.csv is read
ReadEnv ==
    /\ epc = "env"
    /\ \E l \in 0..MaxLimit : limit' = l
    /\ idx' = 1
    /\ epc' = "fetch"
    /\ UNCHANGED <<links, zip, mlDir, omdbRaw, attempt, rows, count,
                   requests, sleeps, did, cached, snap, lastEmpty, processed, tpc, loadVars>>

\* the head of one iteration of `for _, r in links_df.iterrows()`
FetchRow ==
    /\ epc = "fetch"
    /\ IF idx > Len(links)
         THEN /\ epc' = "write"
              /\ UNCHANGED <<idx, attempt, requests, sleeps>>
         ELSE IF ImdbTt(links[idx].imdbId) = Null
           THEN /\ idx' = idx + 1
                /\ UNCHANGED <<epc, attempt, requests, sleeps>>
           ELSE /\ epc' = "request"
                /\ attempt' = 1
                /\ requests' = 0
                /\ sleeps' = <<>>
                /\ UNCHANGED idx
    /\ UNCHANGED <<links, zip, mlDir, omdbRaw, limit, rows, count,
                   did, cached, snap, lastEmpty, processed, tpc, loadVars>>

\* one attempt of _fetch_omdb_raw answers; the rest of the loop body of run()
RequestOk ==
    /\ epc = "request"
    /\ requests' = requests + 1
    /\ \E p \in Payloads :
          rows' = Append(rows, [movieId |-> links[idx].movieId, kind |-> p])
    /\ count' = count + 1
    /\ IF count + 1 >= limit
         THEN epc' = "write" /\ UNCHANGED idx
         ELSE epc' = "fetch" /\ idx' = idx + 1
    /\ UNCHANGED <<links, zip, mlDir, omdbRaw, limit, attempt, sleeps,
                   did, cached, snap, lastEmpty, processed, tpc, loadVars>>

\* one attempt of _fetch_omdb_raw raises requests.RequestException
RequestFails ==
    /\ epc = "request"
    /\ requests' = requests + 1
    /\ sleeps' = Append(sleeps, Delay(attempt))
    /\ IF attempt < MaxRetries
         THEN /\ attempt' = attempt + 1
              /\ UNCHANGED <<epc, idx>>
         ELSE /\ epc' = "fetch"           \* return None; continue
              /\ idx' = idx + 1
              /\ UNCHANGED attempt
    /\ UNCHANGED <<links, zip, mlDir, omdbRaw, limit, rows, count,
                   did, cached, snap, lastEmpty, processed, tpc, loadVars>>

\* if rows: pd.DataFrame(rows).to_csv(omdb_raw.csv)
WriteOmdb ==
    /\ epc = "write"
    /\ IF rows # <<>>
         THEN /\ omdbRaw' = [exists |-> TRUE, rows |-> rows]
              /\ did' = did \cup {"write_omdb"}
         ELSE UNCHANGED <<omdbRaw, did>>
    /\ lastEmpty' = (rows = <<>>)
    /\ epc' = "done"
    /\ UNCHANGED <<links, zip, mlDir, limit, idx, attempt, rows, count,
                   requests, sleeps, cached, snap, processed, tpc, loadVars>>

\* run() returns or raises to its caller: its locals are gone
RunReturn ==
    /\ epc \in {"done", "failed"}
    /\ epc' = "idle"
    /\ ResetLocals
    /\ did' = {}
    /\ cached' = FALSE
    /\ snap' = <<"absent", FALSE, NoRaw>>
    /\ UNCHANGED <<links, zip, mlDir, omdbRaw, lastEmpty, processed, tpc, loadVars>>

\* ------------------------------------------------------------------ transform.py
\* movies.csv of the archive: movieId and the genres field split on "|";
\* a token is its text and whether blanks surround it
RawMovies ==
    <<[movieId |-> 1, genres |-> <<[text |-> "Drama", pad |-> FALSE],
                                   [text |-> "Drama", pad |-> TRUE],
                                   [text |-> "", pad |-> TRUE]>>],
      [movieId |-> 2, genres |-> <<[text |-> "(No Genres Listed)", pad |-> FALSE]>>]>>

\* ratings.csv of the archive
RawRatings == <<[userId |-> 7, movieId |-> 1]>>

\* str.strip()
Strip(tok) == tok.text

\* str.lower()
Lower(t) == IF t = "(No Genres Listed)" THEN "(no genres listed)" ELSE t

\* explode, strip, drop empty tokens and the sentinel, drop_duplicates
MovieGenres(movies) ==
    UNION {{<<movies[i].movieId, Strip(movies[i].genres[j])>> :
                j \in {k \in 1..Len(movies[i].genres) :
                          /\ Strip(movies[i].genres[k]) # ""
                          /\ Lower(Strip(movies[i].genres[k])) # "(no genres listed)"}} :
             i \in 1..Len(movies)}

\* omdb_df.get("BoxOffice") is None when no record carries the column
LacksColumns(raw) == \A i \in 1..Len(raw.rows) : raw.rows[i].kind # "full"

\* faulty variant: rows without a movie id are kept
KeepAll(rs) == rs

\* dropna(subset=["movie_id"])
DropNa(rs) == SelectSeq(rs, LAMBDA r : r.movie_id # Null)

\* the OMDb normalization: one row per raw record that carries a movie id
OmdbClean(raw) ==
    IF ~raw.exists THEN <<>>
    ELSE DropNa([i \in 1..Len(raw.rows) |-> [movie_id |-> raw.rows[i].movieId]])

\* transform(raw_dir, out_dir)
Transform ==
    /\ epc = "idle"
    /\ lpc = "idle"
    /\ IF ~mlDir \/ (omdbRaw.exists /\ LacksColumns(omdbRaw))
         THEN /\ tpc' = "failed"          \* FileNotFoundError, AttributeError
              /\ UNCHANGED processed
         ELSE /\ tpc' = "done"
              /\ processed' =
                   [present |-> processed.present
                                  \cup (FileSet \ {"omdb_details.csv"})
                                  \cup (IF OmdbClean(omdbRaw) # <<>>
                                          THEN {"omdb_details.csv"} ELSE {}),
                    frames |->
                      [movies |-> {RawMovies[i].movieId : i \in 1..Len(RawMovies)},
                       genres |-> {r[2] : r \in MovieGenres(RawMovies)},
                       movie_genres |-> MovieGenres(RawMovies),
                       users |-> {RawRatings[i].userId : i \in 1..Len(RawRatings)},
                       ratings |-> {<<RawRatings[i].userId, RawRatings[i].movieId>> :
                                       i \in 1..Len(RawRatings)},
                       omdb_details |-> IF OmdbClean(omdbRaw) # <<>>
                                          THEN OmdbClean(omdbRaw)
                                          ELSE processed.frames.omdb_details]]
    /\ UNCHANGED <<extractVars, loadVars>>

\* ------------------------------------------------------------------ the pipeline
Init ==
    /\ links \in LinksLists
    /\ zip = "absent"
    /\ mlDir = FALSE
    /\ omdbRaw = NoRaw
    /\ epc = "idle"
    /\ limit = 0
    /\ idx = 0
    /\ attempt = 0
    /\ rows = <<>>
    /\ count = 0
    /\ requests = 0
    /\ sleeps = <<>>
    /\ did = {}
    /\ cached = FALSE
    /\ snap = <<"absent", FALSE, NoRaw>>
    /\ lastEmpty = FALSE
    /\ processed = EmptyDir
    /\ tpc = "none"
    /\ InitLoad

\* etl.py --steps extract transform, any number of times in any order
NextStaging ==
    \/ RunStart \/ DownloadSkip \/ DownloadRefused \/ DownloadBroken \/ DownloadComplete
    \/ ExtractZip \/ NoApiKey \/ ReadEnv \/ FetchRow \/ RequestOk \/ RequestFails
    \/ WriteOmdb \/ RunReturn
    \/ Transform

SpecStaging == Init /\ [][NextStaging]_vars

\* etl.py with any sequence of the steps extract, transform, load
Next ==
    \/ RunStart \/ DownloadSkip \/ DownloadRefused \/ DownloadBroken \/ DownloadComplete
    \/ ExtractZip \/ NoApiKey \/ ReadEnv \/ FetchRow \/ RequestOk \/ RequestFails
    \/ WriteOmdb \/ RunReturn
    \/ Transform
    \/ LoadStart \/ LoadPragma \/ LoadDelete \/ LoadInsert \/ LoadCommit \/ LoadFail
    \/ LoadReturn

Spec == Init /\ [][Next]_vars

\* ------------------------------------------------------------------ claims on extract and transform

\* C4: when every request for a record fails, the fetch issues exactly 3
\* requests for it, sleeping attempt index x base delay (0.5 s, 1.0 s, 1.5 s)
\* after each, then skips the record and goes on with the next id-mapping row;
\* a record's failure never aborts run(), and a request that succeeds ends the
\* record's retries at once.
C4_Retries ==
    /\ [](/\ requests <= 3
          /\ \A i \in 1..Len(sleeps) : sleeps[i] = 5 * i
          /\ epc = "request" => Len(sleeps) = requests /\ requests < 3
          /\ epc = "failed" => requests = 0)
    /\ [][epc = "request" =>
            \/ /\ Len(sleeps') = Len(sleeps) + 1          \* the request failed
               /\ rows' = rows
               /\ IF requests' = 3
                    THEN epc' = "fetch" /\ idx' = idx + 1
                    ELSE epc' = "request" /\ idx' = idx
            \/ /\ sleeps' = sleeps                         \* the request succeeded
               /\ Len(rows') = Len(rows) + 1
               /\ epc' \in {"fetch", "write"}]_vars

\* a record given up after three failed requests, with a row still to fetch
C4_Witness ==
    /\ epc = "fetch"
    /\ requests = 3
    /\ sleeps = <<5, 10, 15>>
    /\ idx = 2
    /\ Len(links) = 2
    /\ rows = <<>>

\* C5: for every configured limit the number of records one fetch retains
\* never exceeds the limit.
C5_WithinLimit == Len(rows) <= limit

\* C6: whenever movies.csv and ratings.csv exist the Normalizer completes and
\* writes all six files, omdb_details.csv with zero rows when the raw
\* enrichment is missing or yields no rows, so that a following load does not
\* fail on a missing file.
C6_SixFiles ==
    /\ (mlDir /\ tpc # "none") => tpc = "done"
    /\ tpc = "done" => Missing(processed) = {}
    /\ (tpc = "done" /\ ~omdbRaw.exists) => processed.frames.omdb_details = <<>>
    /\ (tpc = "done" /\ lpc = "failed") => lerr.cause # "missing"

C8_EmptyFetchNoOutput ==
    /\ lastEmpty => ~omdbRaw.exists
    /\ (lastEmpty /\ tpc = "done") => processed.frames.omdb_details = <<>>

UniqueMovieId(rs) ==
    \A i, j \in 1..Len(rs) : rs[i].movie_id = rs[j].movie_id => i = j

NoMissingMovieId(rs) == \A i \in 1..Len(rs) : rs[i].movie_id # Null

\* no two id-mapping rows carry the same movie id
LinksDistinct ==
    \A i, j \in 1..Len(links) :
        (links[i].movieId # Null /\ links[i].movieId = links[j].movieId) => i = j

\* C9 as stated: for every id-mapping list and all API responses, no two rows
\* of the OmdbDetail table share a movie_id and no row lacks one.
C9_UniqueAlways ==
    /\ UniqueMovieId(processed.frames.omdb_details)
    /\ NoMissingMovieId(processed.frames.omdb_details)

\* C9 as amended: no row of the OmdbDetail table lacks a movie_id, and when no
\* two id-mapping rows carry the same movie id no two rows share a movie_id.
C9_UniqueIfLinksDistinct ==
    /\ NoMissingMovieId(processed.frames.omdb_details)
    /\ LinksDistinct => UniqueMovieId(processed.frames.omdb_details)

\* two enrichment rows normalized from an id-mapping list of distinct movie ids
C9_Witness ==
    /\ tpc = "done"
    /\ LinksDistinct
    /\ Len(omdbRaw.rows) = 2
    /\ Len(processed.frames.omdb_details) = 2

\* C10: a partially written archive is never taken for a completed download:
\* whenever _download_zip has returned, the archive on disk is complete.
C10_PartialNeverSkipped == epc = "extract" => zip = "complete"

====
